---- MODULE Spec2Model ----
(***************************************************************************)
(* Habit, check-in and streak subsystem of the Habit Buddy backend         *)
(* (src/habit_buddy_backend/src/api/routers/habits.py, models.py).         *)
(*                                                                         *)
(* Every request is served by a worker with a SQLAlchemy Session of its    *)
(* own (core/db.py get_db); the workers share only the PostgreSQL tables.  *)
(* The engine is created without an isolation level, so every SQL          *)
(* statement reads the latest committed rows (READ COMMITTED).  One        *)
(* action of the model is one round trip of a handler to the store: a      *)
(* SELECT, or the flush and COMMIT of the pending changes.  A flush writes *)
(* only the columns whose value differs from the value the session loaded  *)
(* (SQLAlchemy unit of work).  Sessions are made with the default          *)
(* expire_on_commit, so the first attribute access after a commit reloads  *)
(* the row.                                                                *)
(*                                                                         *)
(* Calendar dates are day numbers; date1 - date2 == timedelta(days=1) is   *)
(* the integer difference 1.                                               *)
(***************************************************************************)
EXTENDS Integers, Sequences, FiniteSets, TLC

VARIABLES habits, checkins, streaks, habit_seq, req, best, posts, likes

vars == <<habits, checkins, streaks, habit_seq, req, best, posts, likes>>

(***************************************************************************)
(* Bounds                                                                  *)
(***************************************************************************)
MaxHabits == 1          \* habit ids ever allocated in the full system
MaxDate == 2            \* check-in dates of the full system: 1..MaxDate
MaxStreakDate == 5      \* check-in dates of the check-in scenarios
MaxValue == 0           \* check-in values: none, or 0..MaxValue
MaxLongest == 3         \* stored streak lengths drawn for a stand-alone refresh
MaxOverWindow == 1      \* check-in dates beyond the window: up to StreakWindow + MaxOverWindow
MaxListDate == 3        \* check-in dates of the listed habits: 1..MaxListDate
MaxLimit == 2           \* limit of list_checkins: -1..MaxLimit, or the default

Users == {"u1", "u2"}
Procs == {"w1", "w2"}
Titles == {"run", "read"}
HabitIds == 1..MaxHabits
Dates == 1..MaxDate
StreakDates == 1..MaxStreakDate

NoDate == 0             \* last_checkin_date IS NULL
NoValue == -1           \* value IS NULL
Values == {NoValue} \cup (0..MaxValue)

Max2(a, b) == IF a >= b THEN a ELSE b

(***************************************************************************)
(* Tables                                                                  *)
(***************************************************************************)
\* habits      : habit id -> [user_id, title, schedule_days]  (models.Habit)
\* checkins    : set of [id, habit_id, user_id, checkin_date, value]
\* streaks     : habit id -> [current_streak, longest_streak, last_checkin_date]
\* habit_seq   : number of habit ids allocated so far (ids are never reused)
\* best        : habit id -> largest current_streak committed so far (history)
\* posts       : post id -> [like_count]                 (models.FeedPost)
\* likes       : set of <<post id, user id>>             (models.FeedPostLike)

NoSchedule == <<>>      \* schedule_days IS NULL
Schedules == {<<1, 3>>} \* the weekday lists a payload may carry
Unset == <<0>>          \* a payload that leaves schedule_days unset

\* A row of habits as create_habit stores it: of its columns the model
\* keeps the owner, the title and schedule_days.
Habit(user_id, title) ==
    [user_id |-> user_id, title |-> title, schedule_days |-> NoSchedule]

HabitStreak(current, longest, last) ==
    [current_streak |-> current, longest_streak |-> longest, last_checkin_date |-> last]

StreakColumns == {"current_streak", "longest_streak", "last_checkin_date"}

HabitCheckins(rows, h) == {c \in rows : c.habit_id = h}

\* CheckinInsertOk of a table without the unique constraint
CheckinInsertNoUnique(hs, rows, h, d) == h \in DOMAIN hs

\* The store's answer to an INSERT into habit_checkins: the foreign key to
\* habits and the unique constraint on (habit_id, checkin_date).
CheckinInsertOk(hs, rows, h, d) ==
    /\ h \in DOMAIN hs
    /\ \A c \in rows : ~(c.habit_id = h /\ c.checkin_date = d)

\* The store's answer to an INSERT into habit_streaks: the foreign key to
\* habits and the primary key habit_id.
StreakInsertOk(hs, ss, h) == h \in DOMAIN hs /\ h \notin DOMAIN ss

\* Primary keys are opaque and never collide; the key of a new row is made
\* of its habit, its date and the number of rows already holding that pair.
HabitCheckin(rows, h, u, d, v) ==
    [id |-> <<h, d, Cardinality({c \in rows : c.habit_id = h /\ c.checkin_date = d})>>,
     habit_id |-> h, user_id |-> u, checkin_date |-> d, value |-> v]

\* _get_user_habit without the filter on the owner
_get_habit_any_owner(hs, user_id, habit_id) == habit_id \in DOMAIN hs

\* select(Habit).where(Habit.id == habit_id, Habit.user_id == user_id)
\* .scalar_one_or_none(): TRUE when a habit is returned, FALSE for the 404.
_get_user_habit(hs, user_id, habit_id) ==
    /\ habit_id \in DOMAIN hs
    /\ hs[habit_id].user_id = user_id

(***************************************************************************)
(* Streak engine                                                           *)
(***************************************************************************)
RECURSIVE SortedDesc(_, _, _)
\* The checkin_date of every row of rows, most recent first; the dates of
\* rows lie in lo..hi.  The range is halved at each level, so that the depth
\* of the evaluation is logarithmic in the number of dates.
SortedDesc(rows, lo, hi) ==
    IF rows = {} THEN <<>>
    ELSE IF lo = hi THEN [i \in 1..Cardinality(rows) |-> lo]
    ELSE LET mid == (lo + hi) \div 2
         IN  SortedDesc({c \in rows : c.checkin_date > mid}, mid + 1, hi)
                 \o SortedDesc({c \in rows : c.checkin_date <= mid}, lo, mid)

\* select(checkin_date).order_by(desc(checkin_date)).limit(n) over rows
OrderByDateDesc(rows, n) ==
    IF rows = {} \/ n = 0 THEN <<>>
    ELSE LET ds == {c.checkin_date : c \in rows}
             lo == CHOOSE d \in ds : \A e \in ds : d <= e
             hi == CHOOSE d \in ds : \A e \in ds : e <= d
             all == SortedDesc(rows, lo, hi)
         IN  SubSeq(all, 1, IF Len(all) < n THEN Len(all) ELSE n)

StreakWindow == 400

RECURSIVE IncrementsIn(_, _, _)
\* the for loop of _recompute_streak over the indices lo..hi: the number of
\* increments of current before the break or the end of the range.  The
\* range is halved at each level (the second half counts only when the
\* first half ran without a break), so that the depth of the evaluation is
\* logarithmic in the length of the window.
IncrementsIn(dates, lo, hi) ==
    IF lo > hi THEN 0
    ELSE IF lo = hi THEN (IF dates[lo - 1] - dates[lo] = 1 THEN 1 ELSE 0)
    ELSE LET mid == (lo + hi) \div 2
             first == IncrementsIn(dates, lo, mid)
         IN  IF first = mid - lo + 1
             THEN first + IncrementsIn(dates, mid + 1, hi)
             ELSE first

RECURSIVE ConsecutiveNoBreak(_, _)
\* ConsecutiveFrom without the break: every consecutive pair counts
ConsecutiveNoBreak(dates, i) ==
    IF i > Len(dates) THEN 0
    ELSE (IF dates[i - 1] - dates[i] = 1 THEN 1 ELSE 0) + ConsecutiveNoBreak(dates, i + 1)

\* the for loop of _recompute_streak from index i on: the number of
\* increments of current before the break or the end of the list
ConsecutiveFrom(dates, i) == IncrementsIn(dates, i, Len(dates))

ComputeCurrent(dates) == 1 + ConsecutiveFrom(dates, 2)

\* The columns of a loaded row that the session has changed.
Dirty(old, new) == {f \in StreakColumns : new[f] # old[f]}

\* The row after UPDATE habit_streaks SET <dirty columns> WHERE habit_id = h.
UpdateStreak(row, old, new) ==
    [f \in StreakColumns |-> IF f \in Dirty(old, new) THEN new[f] ELSE row[f]]

(***************************************************************************)
(* Requests                                                                *)
(***************************************************************************)
\* req[p] is the request worker p is serving: the operation and its inputs,
\* the position in the handler (pc), the handler's locals, and, at pc =
\* "done", the HTTP status of the response (and in result the rows that
\* list_checkins returns).  pre is a history field: a
\* check-in of (habit_id, checkin_date) existed when the ownership check of
\* create_checkin ran.
NoReq ==
    [op |-> "none", pc |-> "idle", user |-> "", habit_id |-> 0,
     checkin_date |-> NoDate, value |-> NoValue, title |-> "",
     status |-> 0, pre |-> FALSE,
     current |-> 0, last |-> NoDate, streak |-> <<>>, loaded |-> FALSE,
     old_title |-> "", children |-> FALSE, limit |-> 0, result |-> <<>>,
     schedule_days |-> Unset, old_schedule_days |-> NoSchedule,
     post_id |-> 0, like_count |-> 0]

\* The response of a finished request: the status code, kept with the
\* operation, the caller and the habit id (and the date and pre of a
\* create_checkin) of the request it answers.
Response(r, code) ==
    [NoReq EXCEPT !.op = r.op, !.pc = "done", !.status = code, !.user = r.user,
                  !.habit_id = r.habit_id, !.checkin_date = r.checkin_date,
                  !.pre = r.pre, !.post_id = r.post_id]

Ready(p) == req[p].pc \in {"idle", "done"}

At(p, op, pc) == req[p].op = op /\ req[p].pc = pc

Goto(p, r) == req' = [req EXCEPT ![p] = r]

\* best is a history variable: for every habit with a StreakRecord, the
\* largest current_streak its record has held in a committed state.
Observed(b, ss) ==
    [h \in DOMAIN ss |-> Max2(IF h \in DOMAIN b THEN b[h] ELSE 0, ss[h].current_streak)]

HabitTables == <<habits, checkins, streaks, habit_seq, best>>

FeedTables == <<posts, likes>>

Tables == <<HabitTables, FeedTables>>

(***************************************************************************)
(* POST /habits/{habit_id}/checkins                                        *)
(***************************************************************************)
\* habit = _get_user_habit(db, current.id, habit_id), the first round trip of
\* a request with the inputs u (caller), h, d, v
create_checkin_get(p, u, h, d, v) ==
    /\ Ready(p)
    /\ LET r == [NoReq EXCEPT !.op = "create_checkin", !.user = u, !.habit_id = h,
                              !.checkin_date = d, !.value = v]
       IN  IF _get_user_habit(habits, u, h)
           THEN Goto(p, [r EXCEPT !.pc = "commit",
                           !.pre = \E c \in checkins : c.habit_id = h /\ c.checkin_date = d])
           ELSE Goto(p, Response(r, 404))
    /\ UNCHANGED Tables

\* create_checkin_commit with the duplicate found by a read before the
\* insert (the check-in seen by the ownership round trip) instead of by the
\* store
create_checkin_commit_precheck(p) ==
    /\ At(p, "create_checkin", "commit")
    /\ LET r == req[p] IN
       IF ~r.pre /\ r.habit_id \in DOMAIN habits
       THEN /\ checkins' = checkins \cup
                   {HabitCheckin(checkins, r.habit_id, r.user, r.checkin_date, r.value)}
            /\ Goto(p, [r EXCEPT !.pc = "refresh"])
       ELSE /\ checkins' = checkins
            /\ Goto(p, Response(r, 409))
    /\ UNCHANGED <<habits, streaks, habit_seq, best, posts, likes>>

\* create_checkin_commit that swallows the IntegrityError and goes on to the
\* recomputation
create_checkin_commit_swallow(p) ==
    /\ At(p, "create_checkin", "commit")
    /\ LET r == req[p] IN
       IF CheckinInsertOk(habits, checkins, r.habit_id, r.checkin_date)
       THEN /\ checkins' = checkins \cup
                   {HabitCheckin(checkins, r.habit_id, r.user, r.checkin_date, r.value)}
            /\ Goto(p, [r EXCEPT !.pc = "refresh"])
       ELSE /\ checkins' = checkins
            /\ Goto(p, [r EXCEPT !.pc = "refresh"])
    /\ UNCHANGED <<habits, streaks, habit_seq, best, posts, likes>>

\* create_checkin_commit that overwrites the value of the stored check-in
\* of the date instead of refusing the duplicate
create_checkin_commit_upsert(p) ==
    /\ At(p, "create_checkin", "commit")
    /\ LET r == req[p] IN
       IF CheckinInsertOk(habits, checkins, r.habit_id, r.checkin_date)
       THEN /\ checkins' = checkins \cup
                   {HabitCheckin(checkins, r.habit_id, r.user, r.checkin_date, r.value)}
            /\ Goto(p, [r EXCEPT !.pc = "refresh"])
       ELSE /\ checkins' = {IF c.habit_id = r.habit_id /\ c.checkin_date = r.checkin_date
                            THEN [c EXCEPT !.value = r.value] ELSE c : c \in checkins}
            /\ Goto(p, Response(r, 409))
    /\ UNCHANGED <<habits, streaks, habit_seq, best, posts, likes>>

\* db.add(checkin); db.commit(), IntegrityError -> rollback and 409
create_checkin_commit(p) ==
    /\ At(p, "create_checkin", "commit")
    /\ LET r == req[p] IN
       IF CheckinInsertOk(habits, checkins, r.habit_id, r.checkin_date)
       THEN /\ checkins' = checkins \cup
                   {HabitCheckin(checkins, r.habit_id, r.user, r.checkin_date, r.value)}
            /\ Goto(p, [r EXCEPT !.pc = "refresh"])
       ELSE /\ checkins' = checkins
            /\ Goto(p, Response(r, 409))
    /\ UNCHANGED <<habits, streaks, habit_seq, best, posts, likes>>

\* db.refresh(checkin): the row is read back by primary key; a row that is
\* gone (cascade of a concurrent habit deletion) raises InvalidRequestError.
create_checkin_refresh(p) ==
    /\ At(p, "create_checkin", "refresh")
    /\ LET r == req[p] IN
       IF \E c \in checkins : c.habit_id = r.habit_id /\ c.checkin_date = r.checkin_date
       THEN Goto(p, [r EXCEPT !.pc = "r_habit"])
       ELSE Goto(p, Response(r, 500))
    /\ UNCHANGED Tables

(***************************************************************************)
(* _recompute_streak(db, habit)                                            *)
(***************************************************************************)
\* habit.id of the habit expired by the commit: the row is reloaded, and a
\* row that is gone raises ObjectDeletedError.
_recompute_streak_habit(p) ==
    /\ req[p].pc = "r_habit"
    /\ LET r == req[p] IN
       IF r.habit_id \in DOMAIN habits
       THEN Goto(p, [r EXCEPT !.pc = "r_select"])
       ELSE Goto(p, Response(r, 500))
    /\ UNCHANGED Tables

\* lines 32-57: the window of check-in dates and the scan for current
_recompute_streak_select(p) ==
    /\ req[p].pc = "r_select"
    /\ LET r == req[p]
           dates == OrderByDateDesc(HabitCheckins(checkins, r.habit_id), StreakWindow)
       IN  IF dates = <<>>
           THEN Goto(p, [r EXCEPT !.pc = "r_get_empty"])
           ELSE Goto(p, [r EXCEPT !.pc = "r_get", !.current = ComputeCurrent(dates),
                                  !.last = dates[1]])
    /\ UNCHANGED Tables

\* line 43: db.get(HabitStreak, habit.id) or HabitStreak(...)
_recompute_streak_get_empty(p) ==
    /\ req[p].pc = "r_get_empty"
    /\ LET r == req[p] IN
       Goto(p, [r EXCEPT !.pc = "r_commit",
                  !.loaded = r.habit_id \in DOMAIN streaks,
                  !.streak = IF r.habit_id \in DOMAIN streaks
                             THEN <<streaks[r.habit_id]>> ELSE <<>>])
    /\ UNCHANGED Tables

\* line 59: the first db.get(HabitStreak, habit.id); a row found stays in the
\* session's identity map and the later db.get calls return it unread.
_recompute_streak_get(p) ==
    /\ req[p].pc = "r_get"
    /\ LET r == req[p] IN
       IF r.habit_id \in DOMAIN streaks
       THEN Goto(p, [r EXCEPT !.pc = "r_commit", !.loaded = TRUE,
                              !.streak = <<streaks[r.habit_id]>>])
       ELSE Goto(p, [r EXCEPT !.pc = "r_get_again"])
    /\ UNCHANGED Tables

\* line 61: db.get(HabitStreak, habit.id) after line 59 found no row
_recompute_streak_get_again(p) ==
    /\ req[p].pc = "r_get_again"
    /\ LET r == req[p] IN
       Goto(p, [r EXCEPT !.pc = "r_commit",
                  !.loaded = r.habit_id \in DOMAIN streaks,
                  !.streak = IF r.habit_id \in DOMAIN streaks
                             THEN <<streaks[r.habit_id]>> ELSE <<>>])
    /\ UNCHANGED Tables

\* RecomputedStreak that zeroes longest_streak with the rest when the habit
\* has no check-ins
RecomputedStreakReset(r) ==
    LET streak == IF r.loaded THEN r.streak[1] ELSE HabitStreak(0, 0, NoDate)
        longest == Max2(r.current, IF r.loaded THEN streak.longest_streak ELSE 0)
    IN  IF r.last = NoDate
        THEN HabitStreak(0, 0, NoDate)
        ELSE HabitStreak(r.current, Max2(streak.longest_streak, longest), r.last)

\* RecomputedStreak that stores the current streak as the longest one
RecomputedStreakOverwrite(r) ==
    LET streak == IF r.loaded THEN r.streak[1] ELSE HabitStreak(0, 0, NoDate)
    IN  IF r.last = NoDate
        THEN HabitStreak(0, streak.longest_streak, NoDate)
        ELSE HabitStreak(r.current, r.current, r.last)

\* RecomputedStreak that patches the stored current streak by one instead
\* of storing the recomputed one
RecomputedStreakPatched(r) ==
    LET streak == IF r.loaded THEN r.streak[1] ELSE HabitStreak(0, 0, NoDate)
        current == IF streak.last_checkin_date = r.last
                   THEN streak.current_streak + 1 ELSE r.current
        longest == Max2(current, IF r.loaded THEN streak.longest_streak ELSE 0)
    IN  IF r.last = NoDate
        THEN HabitStreak(0, streak.longest_streak, NoDate)
        ELSE HabitStreak(current, Max2(streak.longest_streak, longest), r.last)

\* The values lines 44-45 and 59-64 assign to the streak object, given the
\* object the session holds (a loaded row, or a new zeroed HabitStreak).
RecomputedStreak(r) ==
    LET streak == IF r.loaded THEN r.streak[1] ELSE HabitStreak(0, 0, NoDate)
        \* line 59 reads longest_streak of the row it found, else 0
        longest == Max2(r.current, IF r.loaded THEN streak.longest_streak ELSE 0)
    IN  IF r.last = NoDate
        THEN HabitStreak(0, streak.longest_streak, NoDate)
        ELSE HabitStreak(r.current, Max2(streak.longest_streak, longest), r.last)

\* db.add(streak); db.commit(): INSERT of a new row (IntegrityError when the
\* row exists by now or the habit is gone), or UPDATE of the dirty columns
\* of the loaded row (StaleDataError when the row is gone).
_recompute_streak_commit(p) ==
    /\ req[p].pc = "r_commit"
    /\ LET r == req[p]
           h == r.habit_id
           new == RecomputedStreak(r)
       IN  IF ~r.loaded
           THEN IF StreakInsertOk(habits, streaks, h)
                THEN /\ streaks' = (h :> new) @@ streaks
                     /\ Goto(p, [r EXCEPT !.pc = "r_refresh"])
                ELSE /\ streaks' = streaks
                     /\ Goto(p, Response(r, 500))
           ELSE IF Dirty(r.streak[1], new) = {}
                THEN /\ streaks' = streaks
                     /\ Goto(p, [r EXCEPT !.pc = "r_refresh"])
                ELSE IF h \in DOMAIN streaks
                     THEN /\ streaks' = [streaks EXCEPT
                                           ![h] = UpdateStreak(streaks[h], r.streak[1], new)]
                          /\ Goto(p, [r EXCEPT !.pc = "r_refresh"])
                     ELSE /\ streaks' = streaks
                          /\ Goto(p, Response(r, 500))
    /\ best' = Observed(best, streaks')
    /\ UNCHANGED <<habits, checkins, habit_seq, posts, likes>>

\* db.refresh(streak); return streak, and create_checkin returns the
\* check-in with 201 (a stand-alone call returns with no status).
_recompute_streak_refresh(p) ==
    /\ req[p].pc = "r_refresh"
    /\ LET r == req[p] IN
       IF r.habit_id \in DOMAIN streaks
       THEN Goto(p, Response(r, IF r.op = "create_checkin" THEN 201 ELSE 0))
       ELSE Goto(p, Response(r, 500))
    /\ UNCHANGED Tables

(***************************************************************************)
(* GET /habits, GET /habits/{habit_id}, GET /habits/{habit_id}/checkins    *)
(***************************************************************************)
list_habits(p, u) ==
    /\ Ready(p)
    /\ Goto(p, Response([NoReq EXCEPT !.op = "list_habits", !.user = u], 200))
    /\ UNCHANGED Tables

get_habit(p, u, h) ==
    /\ Ready(p)
    /\ LET r == [NoReq EXCEPT !.op = "get_habit", !.user = u, !.habit_id = h]
       IN  Goto(p, Response(r, IF _get_user_habit(habits, u, h) THEN 200 ELSE 404))
    /\ UNCHANGED Tables

DefaultLimit == 50

RECURSIVE CheckinsByDateAsc(_, _)
\* CheckinsByDateDesc without desc(): the oldest rows first
CheckinsByDateAsc(rows, n) ==
    IF rows = {} \/ n = 0 THEN <<>>
    ELSE LET top == CHOOSE c \in rows : \A o \in rows : o.checkin_date >= c.checkin_date
         IN  <<top>> \o CheckinsByDateAsc(rows \ {top}, n - 1)

RECURSIVE CheckinsByDateDesc(_, _)
\* select(HabitCheckin).order_by(desc(checkin_date)).limit(n) over rows,
\* for n >= 0
CheckinsByDateDesc(rows, n) ==
    IF rows = {} \/ n = 0 THEN <<>>
    ELSE LET top == CHOOSE c \in rows : \A o \in rows : o.checkin_date <= c.checkin_date
         IN  <<top>> \o CheckinsByDateDesc(rows \ {top}, n - 1)

\* habit = _get_user_habit(...) of a request with the query parameter limit
list_checkins_get(p, u, h, limit) ==
    /\ Ready(p)
    /\ LET r == [NoReq EXCEPT !.op = "list_checkins", !.user = u, !.habit_id = h,
                              !.limit = limit]
       IN  IF _get_user_habit(habits, u, h)
           THEN Goto(p, [r EXCEPT !.pc = "select"])
           ELSE Goto(p, Response(r, 404))
    /\ UNCHANGED Tables

\* the SELECT of the check-ins of habit.id; the store rejects a negative
\* LIMIT, and the error is not handled
list_checkins_select(p) ==
    /\ At(p, "list_checkins", "select")
    /\ LET r == req[p] IN
       IF r.limit < 0
       THEN Goto(p, Response(r, 500))
       ELSE Goto(p, [Response(r, 200) EXCEPT
                       !.limit = r.limit,
                       !.result = CheckinsByDateDesc(HabitCheckins(checkins, r.habit_id),
                                                     r.limit)])
    /\ UNCHANGED Tables

(***************************************************************************)
(* POST /habits                                                            *)
(***************************************************************************)
\* db.add(habit); db.commit(): the habit gets the next unused id
create_habit_commit(p, u, t) ==
    /\ Ready(p)
    /\ habit_seq < MaxHabits
    /\ habit_seq' = habit_seq + 1
    /\ habits' = (habit_seq' :> Habit(u, t)) @@ habits
    /\ Goto(p, [NoReq EXCEPT !.op = "create_habit", !.pc = "refresh", !.user = u,
                             !.habit_id = habit_seq', !.title = t])
    /\ UNCHANGED <<checkins, streaks, best, posts, likes>>

\* db.refresh(habit)
create_habit_refresh(p) ==
    /\ At(p, "create_habit", "refresh")
    /\ LET r == req[p] IN
       IF r.habit_id \in DOMAIN habits
       THEN Goto(p, [r EXCEPT !.pc = "get"])
       ELSE Goto(p, Response(r, 500))
    /\ UNCHANGED Tables

\* if not db.get(HabitStreak, habit.id)
create_habit_get(p) ==
    /\ At(p, "create_habit", "get")
    /\ LET r == req[p] IN
       IF r.habit_id \in DOMAIN streaks
       THEN Goto(p, Response(r, 201))
       ELSE Goto(p, [r EXCEPT !.pc = "commit"])
    /\ UNCHANGED Tables

\* db.add(HabitStreak(...)); db.commit()
create_habit_streak(p) ==
    /\ At(p, "create_habit", "commit")
    /\ LET r == req[p] IN
       IF StreakInsertOk(habits, streaks, r.habit_id)
       THEN /\ streaks' = (r.habit_id :> HabitStreak(0, 0, NoDate)) @@ streaks
            /\ Goto(p, Response(r, 201))
       ELSE /\ streaks' = streaks
            /\ Goto(p, Response(r, 500))
    /\ best' = Observed(best, streaks')
    /\ UNCHANGED <<habits, checkins, habit_seq, posts, likes>>

(***************************************************************************)
(* PATCH /habits/{habit_id}; the payload carries a title (t = "" leaves    *)
(* it unset) and schedule_days (days = Unset leaves it unset)              *)
(***************************************************************************)
update_habit_get(p, u, h, t, days) ==
    /\ Ready(p)
    /\ LET r == [NoReq EXCEPT !.op = "update_habit", !.user = u, !.habit_id = h,
                              !.title = t, !.schedule_days = days]
       IN  IF _get_user_habit(habits, u, h)
           THEN Goto(p, [r EXCEPT !.pc = "commit", !.old_title = habits[h].title,
                                  !.old_schedule_days = habits[h].schedule_days])
           ELSE Goto(p, Response(r, 404))
    /\ UNCHANGED Tables

\* The row of habits after the UPDATE of the columns that the payload of r
\* sets to a value other than the loaded one.
UpdatedHabit(row, r) ==
    [row EXCEPT !.title = IF r.title \notin {"", r.old_title} THEN r.title ELSE @,
                !.schedule_days = IF r.schedule_days \notin {Unset, r.old_schedule_days}
                                  THEN r.schedule_days ELSE @]

\* update_habit_commit that starts the streak anew when the schedule of the
\* habit changes
update_habit_commit_reset(p) ==
    /\ At(p, "update_habit", "commit")
    /\ LET r == req[p]
           h == r.habit_id
       IN  IF r.title \in {"", r.old_title} /\ r.schedule_days \in {Unset, r.old_schedule_days}
           THEN /\ UNCHANGED <<habits, streaks>>
                /\ Goto(p, [r EXCEPT !.pc = "refresh"])
           ELSE IF h \in DOMAIN habits
                THEN /\ habits' = [habits EXCEPT ![h] = UpdatedHabit(habits[h], r)]
                     /\ streaks' = IF h \in DOMAIN streaks /\ r.schedule_days # Unset
                                   THEN [streaks EXCEPT ![h].current_streak = 0]
                                   ELSE streaks
                     /\ Goto(p, [r EXCEPT !.pc = "refresh"])
                ELSE /\ UNCHANGED <<habits, streaks>>
                     /\ Goto(p, Response(r, 500))
    /\ best' = Observed(best, streaks')
    /\ UNCHANGED <<checkins, habit_seq, posts, likes>>

\* setattr; db.add(habit); db.commit(): UPDATE of the columns that differ
\* from the loaded ones (StaleDataError when the row is gone)
update_habit_commit(p) ==
    /\ At(p, "update_habit", "commit")
    /\ LET r == req[p] IN
       IF r.title \in {"", r.old_title} /\ r.schedule_days \in {Unset, r.old_schedule_days}
       THEN /\ habits' = habits
            /\ Goto(p, [r EXCEPT !.pc = "refresh"])
       ELSE IF r.habit_id \in DOMAIN habits
            THEN /\ habits' = [habits EXCEPT ![r.habit_id] = UpdatedHabit(habits[r.habit_id], r)]
                 /\ Goto(p, [r EXCEPT !.pc = "refresh"])
            ELSE /\ habits' = habits
                 /\ Goto(p, Response(r, 500))
    /\ UNCHANGED <<checkins, streaks, habit_seq, best, posts, likes>>

\* db.refresh(habit)
update_habit_refresh(p) ==
    /\ At(p, "update_habit", "refresh")
    /\ LET r == req[p] IN
       Goto(p, Response(r, IF r.habit_id \in DOMAIN habits THEN 200 ELSE 500))
    /\ UNCHANGED Tables

(***************************************************************************)
(* DELETE /habits/{habit_id}                                               *)
(***************************************************************************)
delete_habit_get(p, u, h) ==
    /\ Ready(p)
    /\ LET r == [NoReq EXCEPT !.op = "delete_habit", !.user = u, !.habit_id = h]
       IN  IF _get_user_habit(habits, u, h)
           THEN Goto(p, [r EXCEPT !.pc = "delete"])
           ELSE Goto(p, Response(r, 404))
    /\ UNCHANGED Tables

\* db.delete(habit): Habit.streak cascades "all, delete-orphan", so the
\* session loads the streak row to delete it with the habit.
delete_habit_delete(p) ==
    /\ At(p, "delete_habit", "delete")
    /\ Goto(p, [req[p] EXCEPT !.pc = "flush",
                              !.loaded = req[p].habit_id \in DOMAIN streaks])
    /\ UNCHANGED Tables

\* db.commit(), first half of the flush: Habit.checkins has no delete
\* cascade and no passive_deletes, so the session loads the check-ins of
\* the habit to detach them.
delete_habit_flush(p) ==
    /\ At(p, "delete_habit", "flush")
    /\ Goto(p, [req[p] EXCEPT !.pc = "commit",
                              !.children = HabitCheckins(checkins, req[p].habit_id) # {}])
    /\ UNCHANGED Tables

\* db.commit(), second half: the loaded check-ins are detached by UPDATE
\* habit_checkins SET habit_id = NULL, which the NOT NULL column
\* (Mapped[uuid.UUID]) rejects with an IntegrityError; without loaded
\* check-ins the streak row and the habit are deleted, and the store's
\* ON DELETE CASCADE removes the rows that still refer to the habit.
delete_habit_commit(p) ==
    /\ At(p, "delete_habit", "commit")
    /\ LET r == req[p]
           h == r.habit_id
       IN  IF r.children
           THEN /\ UNCHANGED <<habits, checkins, streaks>>
                /\ Goto(p, Response(r, 500))
           ELSE /\ habits' = [i \in DOMAIN habits \ {h} |-> habits[i]]
                /\ checkins' = checkins \ HabitCheckins(checkins, h)
                /\ streaks' = [i \in DOMAIN streaks \ {h} |-> streaks[i]]
                /\ Goto(p, Response(r, 204))
    /\ best' = Observed(best, streaks')
    /\ UNCHANGED <<habit_seq, posts, likes>>

(***************************************************************************)
(* GET /habits/{habit_id}/streak                                           *)
(***************************************************************************)
get_streak_get(p, u, h) ==
    /\ Ready(p)
    /\ LET r == [NoReq EXCEPT !.op = "get_streak", !.user = u, !.habit_id = h]
       IN  IF _get_user_habit(habits, u, h)
           THEN Goto(p, [r EXCEPT !.pc = "get"])
           ELSE Goto(p, Response(r, 404))
    /\ UNCHANGED Tables

\* streak = db.get(HabitStreak, habit.id)
get_streak_streak(p) ==
    /\ At(p, "get_streak", "get")
    /\ LET r == req[p] IN
       IF r.habit_id \in DOMAIN streaks
       THEN Goto(p, Response(r, 200))
       ELSE Goto(p, [r EXCEPT !.pc = "commit"])
    /\ UNCHANGED Tables

\* db.add(streak); db.commit()
get_streak_commit(p) ==
    /\ At(p, "get_streak", "commit")
    /\ LET r == req[p] IN
       IF StreakInsertOk(habits, streaks, r.habit_id)
       THEN /\ streaks' = (r.habit_id :> HabitStreak(0, 0, NoDate)) @@ streaks
            /\ Goto(p, [r EXCEPT !.pc = "refresh"])
       ELSE /\ streaks' = streaks
            /\ Goto(p, Response(r, 500))
    /\ best' = Observed(best, streaks')
    /\ UNCHANGED <<habits, checkins, habit_seq, posts, likes>>

\* db.refresh(streak)
get_streak_refresh(p) ==
    /\ At(p, "get_streak", "refresh")
    /\ LET r == req[p] IN
       Goto(p, Response(r, IF r.habit_id \in DOMAIN streaks THEN 200 ELSE 500))
    /\ UNCHANGED Tables

(***************************************************************************)
(* The system: any requests of any users, on the empty store               *)
(***************************************************************************)
Init ==
    /\ habits = <<>>
    /\ checkins = {}
    /\ streaks = <<>>
    /\ habit_seq = 0
    /\ best = Observed(<<>>, streaks)
    /\ posts = <<>>
    /\ likes = {}
    /\ req = [p \in Procs |-> NoReq]

Next ==
    \E p \in Procs :
        \/ \E u \in Users : list_habits(p, u)
        \/ \E u \in Users, h \in HabitIds : get_habit(p, u, h)
        \/ \E u \in Users, h \in HabitIds : list_checkins_get(p, u, h, DefaultLimit)
        \/ list_checkins_select(p)
        \/ \E u \in Users, t \in Titles : create_habit_commit(p, u, t)
        \/ create_habit_refresh(p)
        \/ create_habit_get(p)
        \/ create_habit_streak(p)
        \/ \E u \in Users, h \in HabitIds, t \in Titles \cup {""} :
               update_habit_get(p, u, h, t, Unset)
        \/ update_habit_commit(p)
        \/ update_habit_refresh(p)
        \/ \E u \in Users, h \in HabitIds : delete_habit_get(p, u, h)
        \/ delete_habit_delete(p)
        \/ delete_habit_flush(p)
        \/ delete_habit_commit(p)
        \/ \E u \in Users, h \in HabitIds : get_streak_get(p, u, h)
        \/ get_streak_streak(p)
        \/ get_streak_commit(p)
        \/ get_streak_refresh(p)
        \/ \E u \in Users, h \in HabitIds, d \in Dates, v \in Values :
               create_checkin_get(p, u, h, d, v)
        \/ create_checkin_commit(p)
        \/ create_checkin_refresh(p)
        \/ _recompute_streak_habit(p)
        \/ _recompute_streak_select(p)
        \/ _recompute_streak_get_empty(p)
        \/ _recompute_streak_get(p)
        \/ _recompute_streak_get_again(p)
        \/ _recompute_streak_commit(p)
        \/ _recompute_streak_refresh(p)

Spec == Init /\ [][Next]_vars

(***************************************************************************)
(* Check-ins of one habit by its owner, from the state create_habit leaves *)
(***************************************************************************)
InitCheckin ==
    /\ habits = (1 :> Habit("u1", "run"))
    /\ checkins = {}
    /\ streaks = (1 :> HabitStreak(0, 0, NoDate))
    /\ habit_seq = 1
    /\ best = Observed(<<>>, streaks)
    /\ posts = <<>>
    /\ likes = {}
    /\ req = [p \in Procs |-> NoReq]

NextCheckin ==
    \E p \in Procs :
        \/ \E d \in StreakDates : create_checkin_get(p, "u1", 1, d, NoValue)
        \/ create_checkin_commit(p)
        \/ create_checkin_refresh(p)
        \/ _recompute_streak_habit(p)
        \/ _recompute_streak_select(p)
        \/ _recompute_streak_get(p)
        \/ _recompute_streak_commit(p)
        \/ _recompute_streak_refresh(p)

SpecCheckin == InitCheckin /\ [][NextCheckin]_vars

(***************************************************************************)
(* _recompute_streak called on its own, on any check-in set and any stored *)
(* StreakRecord (or none) of one habit                                     *)
(***************************************************************************)
\* a call of _recompute_streak(db, habit) with a habit the session holds
_recompute_streak_call(p, h) ==
    /\ Ready(p)
    /\ Goto(p, [NoReq EXCEPT !.op = "refresh", !.pc = "r_select", !.habit_id = h])
    /\ UNCHANGED Tables

InitRefresh ==
    /\ habits = (1 :> Habit("u1", "run"))
    /\ \E D \in SUBSET StreakDates :
           checkins = {HabitCheckin({}, 1, "u1", d, NoValue) : d \in D}
    /\ \/ streaks = <<>>
       \/ \E c \in 0..MaxLongest, l \in 0..MaxLongest, d \in {NoDate} \cup StreakDates :
              streaks = (1 :> HabitStreak(c, l, d))
    /\ habit_seq = 1
    /\ best = Observed(<<>>, streaks)
    /\ posts = <<>>
    /\ likes = {}
    /\ req = [p \in Procs |-> NoReq]

NextRefresh ==
    \E p \in Procs :
        \/ _recompute_streak_call(p, 1)
        \/ _recompute_streak_select(p)
        \/ _recompute_streak_get_empty(p)
        \/ _recompute_streak_get(p)
        \/ _recompute_streak_get_again(p)
        \/ _recompute_streak_commit(p)
        \/ _recompute_streak_refresh(p)

SpecRefresh == InitRefresh /\ [][NextRefresh]_vars

(***************************************************************************)
(* Check-ins of a habit whose check-ins fill the window of _recompute_streak *)
(***************************************************************************)
WindowDates == StreakWindow..(StreakWindow + MaxOverWindow)

\* The state that create_checkin calls for the days 1..StreakWindow - 1, one
\* after the other, leave.
InitWindow ==
    /\ habits = (1 :> Habit("u1", "run"))
    /\ checkins = {HabitCheckin({}, 1, "u1", d, NoValue) : d \in 1..(StreakWindow - 1)}
    /\ streaks = (1 :> HabitStreak(StreakWindow - 1, StreakWindow - 1, StreakWindow - 1))
    /\ habit_seq = 1
    /\ best = Observed(<<>>, streaks)
    /\ posts = <<>>
    /\ likes = {}
    /\ req = [p \in Procs |-> NoReq]

NextWindow ==
    \E p \in Procs :
        \/ \E d \in WindowDates : create_checkin_get(p, "u1", 1, d, NoValue)
        \/ create_checkin_commit(p)
        \/ create_checkin_refresh(p)
        \/ _recompute_streak_habit(p)
        \/ _recompute_streak_select(p)
        \/ _recompute_streak_get(p)
        \/ _recompute_streak_commit(p)
        \/ _recompute_streak_refresh(p)

SpecWindow == InitWindow /\ [][NextWindow]_vars

(***************************************************************************)
(* The same habit with its requests served one at a time                   *)
(***************************************************************************)
\* no request is in progress
Idle == \A q \in Procs : Ready(q)

\* the days after the stored ones, and a day that leaves a gap behind them
SoloDates == WindowDates \cup {StreakWindow + MaxOverWindow + 2}

NextSolo ==
    \E p \in Procs :
        \/ Idle /\ \E d \in SoloDates : create_checkin_get(p, "u1", 1, d, NoValue)
        \/ create_checkin_commit(p)
        \/ create_checkin_refresh(p)
        \/ _recompute_streak_habit(p)
        \/ _recompute_streak_select(p)
        \/ _recompute_streak_get(p)
        \/ _recompute_streak_commit(p)
        \/ _recompute_streak_refresh(p)

SpecSolo == InitWindow /\ [][NextSolo]_vars

(***************************************************************************)
(* _recompute_streak called again and again, one call at a time            *)
(***************************************************************************)
NextRefreshSolo ==
    \E p \in Procs :
        \/ Idle /\ _recompute_streak_call(p, 1)
        \/ _recompute_streak_select(p)
        \/ _recompute_streak_get_empty(p)
        \/ _recompute_streak_get(p)
        \/ _recompute_streak_get_again(p)
        \/ _recompute_streak_commit(p)
        \/ _recompute_streak_refresh(p)

SpecRefreshSolo == InitRefresh /\ [][NextRefreshSolo]_vars

(***************************************************************************)
(* list_checkins on two habits of two owners, with any check-ins           *)
(***************************************************************************)
ListDates == 1..MaxListDate

Limits == (-1)..MaxLimit \cup {DefaultLimit}

InitList ==
    /\ habits = (1 :> Habit("u1", "run"))
                    @@ (2 :> Habit("u2", "read"))
    /\ \E D1 \in SUBSET ListDates, D2 \in SUBSET ListDates :
           checkins = {HabitCheckin({}, 1, "u1", d, NoValue) : d \in D1}
                          \cup {HabitCheckin({}, 2, "u2", d, NoValue) : d \in D2}
    /\ streaks = (1 :> HabitStreak(0, 0, NoDate)) @@ (2 :> HabitStreak(0, 0, NoDate))
    /\ habit_seq = 2
    /\ best = Observed(<<>>, streaks)
    /\ posts = <<>>
    /\ likes = {}
    /\ req = [p \in Procs |-> NoReq]

NextList ==
    \E p \in Procs :
        \/ \E u \in Users, h \in {1, 2}, limit \in Limits : list_checkins_get(p, u, h, limit)
        \/ list_checkins_select(p)

SpecList == InitList /\ [][NextList]_vars

(***************************************************************************)
(* Every request on one habit that has a StreakRecord, but its deletion    *)
(***************************************************************************)
NextFrame ==
    \E p \in Procs :
        \/ list_habits(p, "u1")
        \/ get_habit(p, "u1", 1)
        \/ list_checkins_get(p, "u1", 1, DefaultLimit)
        \/ list_checkins_select(p)
        \/ \E t \in {"", "read"}, days \in Schedules \cup {Unset, NoSchedule} :
               update_habit_get(p, "u1", 1, t, days)
        \/ update_habit_commit(p)
        \/ update_habit_refresh(p)
        \/ get_streak_get(p, "u1", 1)
        \/ get_streak_streak(p)
        \/ \E u \in Users, d \in Dates : create_checkin_get(p, u, 1, d, NoValue)
        \/ create_checkin_commit(p)
        \/ create_checkin_refresh(p)
        \/ _recompute_streak_habit(p)
        \/ _recompute_streak_select(p)
        \/ _recompute_streak_get(p)
        \/ _recompute_streak_commit(p)
        \/ _recompute_streak_refresh(p)

SpecFrame == InitCheckin /\ [][NextFrame]_vars

(***************************************************************************)
(* Check-ins of one habit by its owner, served one at a time               *)
(***************************************************************************)
NextCheckinSolo ==
    \E p \in Procs :
        \/ Idle /\ \E d \in StreakDates : create_checkin_get(p, "u1", 1, d, NoValue)
        \/ create_checkin_commit(p)
        \/ create_checkin_refresh(p)
        \/ _recompute_streak_habit(p)
        \/ _recompute_streak_select(p)
        \/ _recompute_streak_get(p)
        \/ _recompute_streak_commit(p)
        \/ _recompute_streak_refresh(p)

SpecCheckinSolo == InitCheckin /\ [][NextCheckinSolo]_vars

(***************************************************************************)
(* Properties                                                              *)
(***************************************************************************)
Stepped(p) == req'[p] # req[p]

Answered(p, op) == req[p].op = op /\ req[p].pc = "done"

OwnedBy(u, h) == h \in DOMAIN habits /\ habits[h].user_id = u

SameDay(h, d) == {c \in checkins : c.habit_id = h /\ c.checkin_date = d}

HabitScoped ==
    {"get_habit", "update_habit", "delete_habit", "get_streak", "create_checkin",
     "list_checkins"}

\* C1: in every reachable state no habit has two check-ins with the same
\* calendar date
C1_OneCheckinPerDay ==
    \A a \in checkins, b \in checkins :
        (a.habit_id = b.habit_id /\ a.checkin_date = b.checkin_date) => a = b

\* a second check-in of a date was refused while the habit holds check-ins
\* of several dates
C1_Witness ==
    \E p \in Procs :
        /\ Answered(p, "create_checkin") /\ req[p].status = 409
        /\ SameDay(req[p].habit_id, req[p].checkin_date) # {}
        /\ Cardinality(HabitCheckins(checkins, req[p].habit_id)) >= 2

\* Two answered create_checkin requests of two workers for the same habit
\* and date, both begun when no check-in of that date existed: they ran
\* concurrently.
ConcurrentSameDay(p, q) ==
    /\ p # q
    /\ Answered(p, "create_checkin") /\ Answered(q, "create_checkin")
    /\ req[p].status # 404 /\ req[q].status # 404
    /\ req[p].habit_id = req[q].habit_id
    /\ req[p].checkin_date = req[q].checkin_date
    /\ ~req[p].pre /\ ~req[q].pre

\* C2: of two concurrent create_checkin requests of the owner for the same
\* habit and date exactly one ends with 201 and the other with 409, and the
\* table then holds exactly one row of that habit and date
C2_OneCreatedOneConflict ==
    \A p \in Procs, q \in Procs :
        ConcurrentSameDay(p, q) =>
            /\ {req[p].status, req[q].status} = {201, 409}
            /\ Cardinality(SameDay(req[p].habit_id, req[p].checkin_date)) = 1

C2_Witness ==
    \E p \in Procs, q \in Procs :
        /\ ConcurrentSameDay(p, q)
        /\ req[p].status = 201 /\ req[q].status = 409

\* C3: a create_checkin for a habit and date that already has a check-in
\* ends with 409 at its insert, and its steps leave the check-ins and the
\* StreakRecords as they were
C3_DuplicateLeavesStateAlone ==
    [][\A p \in Procs :
           /\ ( /\ Ready(p) /\ Stepped(p)
                /\ req'[p].op = "create_checkin" /\ req'[p].pre )
              => /\ req'[p].pc = "commit"
                 /\ checkins' = checkins
                 /\ streaks' = streaks
           /\ ( /\ At(p, "create_checkin", "commit") /\ Stepped(p)
                /\ (req[p].pre \/ SameDay(req[p].habit_id, req[p].checkin_date) # {}) )
              => /\ req'[p].pc = "done" /\ req'[p].status = 409
                 /\ checkins' = checkins
                 /\ streaks' = streaks]_vars

\* a duplicate was answered 409 for a habit whose streak had been computed
C3_Witness ==
    \E p \in Procs :
        /\ Answered(p, "create_checkin") /\ req[p].status = 409 /\ req[p].pre
        /\ req[p].habit_id \in DOMAIN streaks
        /\ streaks[req[p].habit_id].current_streak >= 1

\* C4: a habit-scoped operation called for a habit the caller does not own,
\* or for a habit id that does not exist, ends with 404 and changes no
\* habit, no check-in and no StreakRecord
C4_NotOwnedIsNotFound ==
    [][\A p \in Procs :
           ( /\ Ready(p) /\ Stepped(p)
             /\ req'[p].op \in HabitScoped
             /\ ~OwnedBy(req'[p].user, req'[p].habit_id) )
           => /\ req'[p].pc = "done" /\ req'[p].status = 404
              /\ habits' = habits /\ checkins' = checkins /\ streaks' = streaks]_vars

\* a delete_habit of a caller who does not own the existing habit got 404
C4_Witness ==
    \E p \in Procs :
        /\ Answered(p, "delete_habit") /\ req[p].status = 404
        /\ req[p].habit_id \in DOMAIN habits
        /\ habits[req[p].habit_id].user_id # req[p].user

WithoutHabit(hs, h) == [i \in DOMAIN hs \ {h} |-> hs[i]]

\* C5: for every caller, the ownership check answers a habit id owned by
\* another user as it answers the same id in the state that differs only by
\* that habit not existing
C5_NoExistenceLeak ==
    \A u \in Users : \A h \in DOMAIN habits :
        habits[h].user_id # u =>
            (_get_user_habit(habits, u, h) <=> _get_user_habit(WithoutHabit(habits, h), u, h))

\* a get_streak of a caller who does not own the existing habit got 404
C5_Witness ==
    \E p \in Procs :
        /\ Answered(p, "get_streak") /\ req[p].status = 404
        /\ req[p].habit_id \in DOMAIN habits
        /\ habits[req[p].habit_id].user_id # req[p].user

\* The dates of all check-ins of habit h, most recent first.
DatesDesc(h) == OrderByDateDesc(HabitCheckins(checkins, h), Cardinality(checkins))

StrictlyDescending(dates) == \A i \in 2..Len(dates) : dates[i - 1] > dates[i]

\* The length of the maximal prefix of dates in which each date is one day
\* before its predecessor.
MaximalRun(dates) ==
    CHOOSE k \in 1..Len(dates) :
        /\ \A i \in 2..k : dates[i - 1] - dates[i] = 1
        /\ k = Len(dates) \/ dates[k] - dates[k + 1] # 1

Scanned(p) ==
    \/ req[p].pc \in {"r_get", "r_get_again"}
    \/ req[p].pc = "r_commit" /\ req[p].last # NoDate

\* C6: for every non-empty list of distinct dates sorted descending the
\* computed current streak is the length of the maximal prefix of
\* consecutive days: the list length when there is no gap
C6_CurrentIsLeadingRun ==
    \A p \in Procs :
        Scanned(p) =>
            LET dates == DatesDesc(req[p].habit_id) IN
            /\ dates # <<>> /\ StrictlyDescending(dates)
            /\ req[p].current = MaximalRun(dates)
            /\ (\A i \in 2..Len(dates) : dates[i - 1] - dates[i] = 1)
                   => req[p].current = Len(dates)

\* the scan stopped at a gap after a run of two days, with dates behind it
C6_Witness ==
    \E p \in Procs :
        /\ Scanned(p)
        /\ req[p].current = 2
        /\ Len(DatesDesc(req[p].habit_id)) = 4

\* C7: the refresh of a habit without check-ins writes current_streak 0 and
\* last_checkin_date null and leaves longest_streak at its stored value
C7_EmptyKeepsLongest ==
    [][\A p \in Procs :
           ( /\ req[p].pc = "r_commit" /\ Stepped(p)
             /\ req[p].last = NoDate /\ req[p].loaded
             /\ req[p].habit_id \in DOMAIN streaks )
           => /\ req'[p].pc = "r_refresh"
              /\ streaks'[req[p].habit_id] =
                     HabitStreak(0, streaks[req[p].habit_id].longest_streak, NoDate)]_vars

\* a record with a running streak was reset and kept its longest streak
C7_Witness ==
    \E p \in Procs :
        /\ req[p].pc = "r_refresh" /\ req[p].last = NoDate /\ req[p].loaded
        /\ req[p].streak[1].current_streak > 0
        /\ req[p].streak[1].longest_streak = MaxLongest
        /\ streaks[req[p].habit_id] = HabitStreak(0, MaxLongest, NoDate)

PreviousLongest(h) == IF h \in DOMAIN streaks THEN streaks[h].longest_streak ELSE 0

\* C8: the longest streak a refresh writes is the maximum of the previous
\* longest streak and the current streak it writes
C8_LongestIsMax ==
    [][\A p \in Procs :
           (req[p].pc = "r_commit" /\ Stepped(p) /\ req'[p].pc = "r_refresh")
           => LET h == req[p].habit_id IN
              /\ streaks'[h].longest_streak =
                     Max2(PreviousLongest(h), streaks'[h].current_streak)
              /\ streaks'[h].longest_streak >= PreviousLongest(h)
              /\ streaks'[h].longest_streak >= streaks'[h].current_streak]_vars

\* a refresh lowered the current streak below a longest streak it kept
C8_Witness ==
    \E p \in Procs :
        /\ req[p].pc = "r_refresh" /\ req[p].loaded
        /\ req[p].streak[1].longest_streak = MaxLongest
        /\ req[p].current > 0 /\ req[p].current < MaxLongest
        /\ streaks[req[p].habit_id].longest_streak = MaxLongest
        /\ streaks[req[p].habit_id].current_streak = req[p].current

\* C9: in every state every StreakRecord has longest_streak >=
\* current_streak >= 0
C9_LongestAtLeastCurrent ==
    \A h \in DOMAIN streaks :
        /\ streaks[h].longest_streak >= streaks[h].current_streak
        /\ streaks[h].current_streak >= 0

\* C10: no step lowers the stored longest_streak of a habit
C10_LongestNeverDecreases ==
    [][\A h \in DOMAIN streaks \cap DOMAIN streaks' :
           streaks'[h].longest_streak >= streaks[h].longest_streak]_vars

\* C11: the current streak and the last date that a refresh computes from
\* its window of the StreakWindow most recent check-in dates are those
\* computed from all check-in dates the habit has at that moment, however
\* many there are
C11_WindowIsSufficient ==
    [][\A p \in Procs :
           (req[p].pc = "r_select" /\ Stepped(p) /\ req'[p].pc = "r_get")
           => LET dates == DatesDesc(req[p].habit_id) IN
              /\ req'[p].current = MaximalRun(dates)
              /\ req'[p].last = dates[1]]_vars

\* the step by which create_checkin of worker p returns 201
Returns201(p) ==
    /\ At(p, "create_checkin", "r_refresh") /\ Stepped(p)
    /\ req'[p].pc = "done" /\ req'[p].status = 201

\* C12: when a create_checkin that ran with no other request in progress
\* returns 201, the StreakRecord of its habit holds the run of consecutive
\* days ending at the most recent check-in date as current_streak and that
\* date as last_checkin_date, computed from all check-ins of the habit
\* with the new one, in whatever order the dates were recorded
C12_RecomputedBeforeReturn ==
    [][\A p \in Procs :
           Returns201(p)
           => LET h == req[p].habit_id
                  dates == DatesDesc(h)
              IN  /\ req[p].checkin_date \in {dates[i] : i \in 1..Len(dates)}
                  /\ h \in DOMAIN streaks'
                  /\ streaks'[h].current_streak = MaximalRun(dates)
                  /\ streaks'[h].last_checkin_date = dates[1]]_vars

\* C13: once the concurrent create_checkin requests for different dates of
\* a habit have all completed, the StreakRecord of the habit holds the
\* current_streak and the last_checkin_date computed from the check-in
\* dates the habit then has
C13_ConsistentAfterConcurrent ==
    Idle =>
        \A h \in DOMAIN streaks :
            HabitCheckins(checkins, h) # {} =>
                LET dates == DatesDesc(h) IN
                /\ streaks[h].current_streak = MaximalRun(dates)
                /\ streaks[h].last_checkin_date = dates[1]

\* C14: in every state, every persisted habit has a StreakRecord, from the
\* commit of create_habit that stores the habit until the habit is deleted
\* (the primary key habit_id of habit_streaks, the domain of streaks, rules
\* out a second record)
C14_ExactlyOneStreakRecord ==
    \A h \in DOMAIN habits : h \in DOMAIN streaks

\* C15: a get_streak that passed the ownership check of a habit its caller
\* still owns (so the habit existed all through the request) is answered
\* 200, and the habit then has a StreakRecord, whatever other requests ran
\* on the habit while it was served
C15_GetStreakNeverFails ==
    \A p \in Procs :
        ( /\ Answered(p, "get_streak") /\ req[p].status # 404
          /\ OwnedBy(req[p].user, req[p].habit_id) )
        => /\ req[p].status = 200
           /\ req[p].habit_id \in DOMAIN streaks

\* C16: a delete_habit of the owner succeeds, also for a habit that has
\* check-ins, and after it no habit, no check-in and no StreakRecord with
\* the deleted habit id is left
C16_DeleteRemovesAll ==
    \A p \in Procs :
        (Answered(p, "delete_habit") /\ req[p].status # 404)
        => LET h == req[p].habit_id IN
           /\ req[p].status = 204
           /\ h \notin DOMAIN habits
           /\ HabitCheckins(checkins, h) = {}
           /\ h \notin DOMAIN streaks

\* C17: create_checkin answers 409 only when the insert met a check-in of
\* the same habit and date; no other failure of the insert is answered 409
C17_ConflictOnlyForDuplicate ==
    [][\A p \in Procs :
           ( /\ At(p, "create_checkin", "commit") /\ Stepped(p)
             /\ req'[p].pc = "done" /\ req'[p].status = 409 )
           => SameDay(req[p].habit_id, req[p].checkin_date) # {}]_vars

\* a call of refresh has returned on worker q
Refreshed(q) == Answered(q, "refresh") /\ req[q].status = 0

\* C18: with the calls of refresh served one at a time and no check-in
\* created, no step of a call that follows a completed call changes the
\* StreakRecord: after the second call it is the record the first call
\* left, for every set of check-ins and every previous record
C18_RefreshIdempotent ==
    [][\A p \in Procs, q \in Procs :
           (p # q /\ Refreshed(q) /\ Stepped(p)) => streaks' = streaks]_vars

\* a second call has committed over the record left by the first, for a
\* habit with a running streak of two days or more and a longer stored
\* longest streak
C18_Witness ==
    \E p \in Procs, q \in Procs :
        /\ p # q /\ Refreshed(q)
        /\ req[p].pc = "r_refresh" /\ req[p].loaded
        /\ req[p].current >= 2 /\ req[p].current < MaxLongest
        /\ streaks[1] = HabitStreak(req[p].current, MaxLongest, req[p].last)

\* C19: the rows a list_checkins of the owner returns are check-ins of the
\* habit asked for, at most limit of them, in strictly descending order of
\* date, and no check-in of the habit that is left out is more recent than a
\* returned one
C19_ListIsMostRecent ==
    \A p \in Procs :
        (Answered(p, "list_checkins") /\ req[p].status = 200)
        => LET res == req[p].result
               h == req[p].habit_id
               returned == {res[i] : i \in 1..Len(res)}
           IN  /\ returned \subseteq HabitCheckins(checkins, h)
               /\ Len(res) <= req[p].limit
               /\ \A i \in 2..Len(res) : res[i - 1].checkin_date > res[i].checkin_date
               /\ \A c \in HabitCheckins(checkins, h) \ returned :
                      \A o \in returned : c.checkin_date < o.checkin_date

\* a list of the two most recent of the three check-ins of a habit, with
\* check-ins of the other habit in the table
C19_Witness ==
    \E p \in Procs :
        /\ Answered(p, "list_checkins") /\ req[p].status = 200
        /\ Len(req[p].result) = 2 /\ req[p].limit = 2
        /\ Cardinality(HabitCheckins(checkins, req[p].habit_id)) = 3
        /\ Cardinality(checkins) > 3

\* C20: a step changes current_streak, longest_streak or last_checkin_date
\* of an existing StreakRecord only when it is the write of the refresh of
\* a create_checkin on that habit whose insert succeeded; the steps of
\* get_habit, update_habit, list_checkins, list_habits, get_streak and of a
\* create_checkin that fails leave them as they are
C20_OnlyCheckinChangesStreak ==
    [][\A h \in DOMAIN streaks \cap DOMAIN streaks' :
           streaks'[h] # streaks[h] =>
               \E p \in Procs :
                   /\ req[p].op = "create_checkin" /\ req[p].pc = "r_commit"
                   /\ req[p].habit_id = h /\ Stepped(p)
                   /\ \E c \in checkins : c.habit_id = h /\ c.checkin_date = req[p].checkin_date]_vars

\* an update_habit has changed schedule_days of a habit with a running
\* streak, a create_checkin on it was refused, and the streak stands
C20_Witness ==
    \E p \in Procs, q \in Procs :
        /\ Answered(p, "update_habit") /\ req[p].status = 200
        /\ habits[1].schedule_days \in Schedules
        /\ Answered(q, "create_checkin") /\ req[q].status \in {404, 409}
        /\ streaks[1].current_streak = MaxDate

\* C21: a step removes or changes no stored check-in of a habit that exists
\* after the step: every check-in stays as it was created (same id, habit,
\* user, date and value) until its habit is deleted
C21_CheckinsOnlyGrow ==
    [][/\ \A c \in checkins : c.habit_id \in DOMAIN habits' => c \in checkins'
       /\ \A c \in checkins, d \in checkins' : c.id = d.id => c = d]_vars

\* a habit holds a check-in of every date, each with a value, after a
\* duplicate carrying another value was refused and a delete_habit failed
C21_Witness ==
    \E p \in Procs, q \in Procs :
        /\ Answered(p, "create_checkin") /\ req[p].status = 409
        /\ Answered(q, "delete_habit") /\ req[q].status = 500
        /\ Cardinality(HabitCheckins(checkins, req[p].habit_id)) = MaxDate
        /\ \A c \in checkins : c.value # NoValue

\* the session of worker p holds no StreakRecord, or one whose
\* longest_streak is smaller than its current_streak
Defective(p) ==
    \/ ~req[p].loaded
    \/ req[p].streak[1].longest_streak < req[p].streak[1].current_streak

\* the current streak of the check-in history of habit h
HistoryStreak(h) ==
    IF HabitCheckins(checkins, h) = {} THEN 0 ELSE MaximalRun(DatesDesc(h))

\* C22: a refresh that finds the StreakRecord of its habit missing, or with
\* longest_streak < current_streak, commits a record whose current_streak
\* is the one of the check-in history and whose longest_streak is not
\* smaller, and returns without error
C22_RefreshRepairs ==
    [][\A p \in Procs :
           LET h == req[p].habit_id IN
           /\ (req[p].pc = "r_commit" /\ Stepped(p) /\ Defective(p))
              => /\ req'[p].pc = "r_refresh"
                 /\ h \in DOMAIN streaks'
                 /\ streaks'[h].current_streak = HistoryStreak(h)
                 /\ streaks'[h].longest_streak >= streaks'[h].current_streak
           /\ (req[p].pc = "r_refresh" /\ Stepped(p) /\ Defective(p))
              => req'[p].pc = "done" /\ req'[p].status # 500]_vars

\* The length of the longest run of consecutive days among the check-in
\* dates of habit h.
LongestRun(h) ==
    LET D == {c.checkin_date : c \in HabitCheckins(checkins, h)}
        RunTo(d, k) == \A i \in 0..(k - 1) : d - i \in D
    IN  IF D = {} THEN 0
        ELSE CHOOSE k \in 1..Cardinality(D) :
                 /\ \E d \in D : RunTo(d, k)
                 /\ \A d \in D : ~RunTo(d, k + 1)

\* C23: with the requests on a habit served one at a time, the stored
\* longest_streak is in every state the largest current_streak the record
\* has held in a committed state since the habit was created
C23_LongestIsBestObserved ==
    \A h \in DOMAIN streaks : streaks[h].longest_streak = best[h]

\* dates recorded out of order: the record keeps a longest streak of two
\* days after the current streak fell back to one, while the check-in
\* dates hold a run of three days that no refresh saw as the current one
C23_Witness ==
    /\ Idle
    /\ streaks[1] = HabitStreak(1, 2, MaxStreakDate)
    /\ best[1] = 2
    /\ LongestRun(1) = 3

\* C24: whatever other requests run on the same habit, the step that ends
\* a create_checkin answers 201, 404 or 409, never an unhandled storage
\* error, and when it answers 201 the check-in row is stored
C24_CheckinNeverCrashes ==
    [][\A p \in Procs :
           (Stepped(p) /\ req'[p].op = "create_checkin" /\ req'[p].pc = "done")
           => /\ req'[p].status \in {201, 404, 409}
              /\ req'[p].status = 201
                     => \E c \in checkins' : /\ c.habit_id = req'[p].habit_id
                                             /\ c.checkin_date = req'[p].checkin_date]_vars

(***************************************************************************)
(* Feed: likes (routers/feed.py)                                           *)
(***************************************************************************)
MaxPosts == 2

\* like requests are admitted while the counter can stay below this cap
MaxLikeCount == 3

PostIds == 1..MaxPosts

\* an id no post carries
NoPost == 0

\* a feed post row, reduced to the column the like handlers write
FeedPost(n) == [like_count |-> n]

\* a like row; (post_id, user_id) is the primary key of the table
FeedPostLike(post, u) == <<post, u>>

LikesOf(post) == {l \in likes : l[1] = post}

InFlightLikes(post) ==
    {q \in Procs : req[q].op = "like" /\ req[q].post_id = post /\ ~Ready(q)}

\* like: db.get(FeedPost, post_id), 404 when there is no such post
like_get(p, u, post) ==
    /\ Ready(p)
    /\ post \in DOMAIN posts
           => posts[post].like_count + Cardinality(InFlightLikes(post)) < MaxLikeCount
    /\ LET r == [NoReq EXCEPT !.op = "like", !.user = u, !.post_id = post]
       IN  IF post \in DOMAIN posts
           THEN Goto(p, [r EXCEPT !.pc = "commit",
                                  !.like_count = posts[post].like_count])
           ELSE Goto(p, Response(r, 404))
    /\ UNCHANGED Tables

\* variant of the first commit: after the IntegrityError the handler goes on
\* to the counter as if the row had been inserted
like_commit_continue(p) ==
    /\ At(p, "like", "commit")
    /\ LET r == req[p]
           row == FeedPostLike(r.post_id, r.user)
       IN  /\ likes' = likes \cup {row}
           /\ Goto(p, [r EXCEPT !.pc = "reload"])
    /\ UNCHANGED <<HabitTables, posts>>

\* like: INSERT of the like row and commit; an IntegrityError (the user's
\* like row exists, or the post is gone) is rolled back and answered 204
like_commit(p) ==
    /\ At(p, "like", "commit")
    /\ LET r == req[p]
           row == FeedPostLike(r.post_id, r.user)
       IN  IF row \in likes \/ r.post_id \notin DOMAIN posts
           THEN /\ Goto(p, Response(r, 204))
                /\ UNCHANGED Tables
           ELSE /\ likes' = likes \cup {row}
                /\ Goto(p, [r EXCEPT !.pc = "reload"])
                /\ UNCHANGED <<HabitTables, posts>>

\* like: post.like_count is read again after the commit expired the post
like_reload(p) ==
    /\ At(p, "like", "reload")
    /\ req[p].post_id \in DOMAIN posts
    /\ Goto(p, [req[p] EXCEPT !.pc = "count",
                              !.like_count = posts[req[p].post_id].like_count])
    /\ UNCHANGED Tables

\* like: UPDATE feed_posts SET like_count = <value read + 1>, commit, 204
like_update(p) ==
    /\ At(p, "like", "count")
    /\ LET r == req[p]
       IN  /\ posts' = [posts EXCEPT ![r.post_id] = FeedPost(r.like_count + 1)]
           /\ Goto(p, Response(r, 204))
    /\ UNCHANGED <<HabitTables, likes>>

\* unlike: db.get(FeedPost, post_id), 404 when there is no such post
unlike_get(p, u, post) ==
    /\ Ready(p)
    /\ LET r == [NoReq EXCEPT !.op = "unlike", !.user = u, !.post_id = post]
       IN  IF post \in DOMAIN posts
           THEN Goto(p, [r EXCEPT !.pc = "select",
                                  !.like_count = posts[post].like_count])
           ELSE Goto(p, Response(r, 404))
    /\ UNCHANGED Tables

\* unlike: SELECT of the user's like row; 204 when there is none
unlike_select(p) ==
    /\ At(p, "unlike", "select")
    /\ LET r == req[p]
       IN  IF FeedPostLike(r.post_id, r.user) \in likes
           THEN Goto(p, [r EXCEPT !.pc = "delete"])
           ELSE Goto(p, Response(r, 204))
    /\ UNCHANGED Tables

\* unlike: DELETE of the like row by its key and commit; a DELETE that
\* matches no row (the row went in the meantime) is not an error
unlike_delete(p) ==
    /\ At(p, "unlike", "delete")
    /\ LET r == req[p]
       IN  /\ likes' = likes \ {FeedPostLike(r.post_id, r.user)}
           /\ Goto(p, [r EXCEPT !.pc = "reload"])
    /\ UNCHANGED <<HabitTables, posts>>

\* unlike: post.like_count is read again after the commit expired the post
unlike_reload(p) ==
    /\ At(p, "unlike", "reload")
    /\ req[p].post_id \in DOMAIN posts
    /\ Goto(p, [req[p] EXCEPT !.pc = "count",
                              !.like_count = posts[req[p].post_id].like_count])
    /\ UNCHANGED Tables

\* unlike: like_count = max(0, value read - 1); the UPDATE is issued only
\* when that differs from the value read; commit, 204
unlike_update(p) ==
    /\ At(p, "unlike", "count")
    /\ LET r == req[p]
           n == Max2(0, r.like_count - 1)
       IN  /\ IF n # r.like_count
              THEN posts' = [posts EXCEPT ![r.post_id] = FeedPost(n)]
              ELSE UNCHANGED posts
           /\ Goto(p, Response(r, 204))
    /\ UNCHANGED <<HabitTables, likes>>

\* the posts exist with the server default like_count 0 and no like row
InitFeed ==
    /\ habits = <<>>
    /\ checkins = {}
    /\ streaks = <<>>
    /\ habit_seq = 0
    /\ best = Observed(<<>>, streaks)
    /\ posts = [x \in PostIds |-> FeedPost(0)]
    /\ likes = {}
    /\ req = [p \in Procs |-> NoReq]

\* like requests of one user, from both workers
NextLike ==
    \E p \in Procs :
        \/ \E post \in PostIds \cup {NoPost} : like_get(p, "u1", post)
        \/ like_commit(p)
        \/ like_reload(p)
        \/ like_update(p)

SpecLike == InitFeed /\ [][NextLike]_vars

\* like and unlike requests of every user on the first post and on a
\* missing one, from both workers
NextFeed ==
    \E p \in Procs :
        \/ \E u \in Users, post \in {1, NoPost} : like_get(p, u, post)
        \/ like_commit(p)
        \/ like_reload(p)
        \/ like_update(p)
        \/ \E u \in Users, post \in {1, NoPost} : unlike_get(p, u, post)
        \/ unlike_select(p)
        \/ unlike_delete(p)
        \/ unlike_reload(p)
        \/ unlike_update(p)

SpecFeed == InitFeed /\ [][NextFeed]_vars

\* C25: a like whose user already has a like row on the post is answered
\* 204 at its commit and changes neither the like rows nor any like_count;
\* with the likes of one user only, a post's like_count never passes one,
\* and is one once the user's like row is stored and no like is under way
C25_LikeIdempotent ==
    [][/\ \A p \in Procs :
              (/\ At(p, "like", "commit")
               /\ Stepped(p)
               /\ FeedPostLike(req[p].post_id, req[p].user) \in likes)
              => /\ req'[p].pc = "done"
                 /\ req'[p].status = 204
                 /\ likes' = likes
                 /\ posts' = posts
       /\ \A post \in PostIds :
              /\ posts'[post].like_count <= 1
              /\ (FeedPostLike(post, "u1") \in likes' /\ InFlightLikes(post)' = {})
                     => posts'[post].like_count = 1]_vars

\* the user's second like of a post has been answered: one row, count one
C25_Witness ==
    /\ \E p \in Procs : /\ Answered(p, "like")
                        /\ req[p].status = 204
                        /\ req[p].post_id = 1
    /\ \A p \in Procs : Answered(p, "like") /\ req[p].post_id = 1
    /\ likes = {FeedPostLike(1, "u1")}
    /\ posts[1].like_count = 1

\* C26: whenever no like or unlike request is under way, every post's
\* like_count is the number of its like rows, and is not negative, whatever
\* the users and the interleaving of their like and unlike requests
C26_CountMatchesRows ==
    Idle => \A post \in PostIds :
                /\ posts[post].like_count = Cardinality(LikesOf(post))
                /\ posts[post].like_count >= 0
====
